---- MODULE Spec2Model ----
(***************************************************************************)
(* PlanMaker, src/logic.py: GroupScheduler.  Slots are generated around    *)
(* each participant's class hours, pooled per slot, and groups are formed  *)
(* by a maximum flow followed by a minimum-cost flow of the same value,    *)
(* with a repair loop that drops under-filled slots.                       *)
(*                                                                         *)
(* Text is a sequence of one-character strings, so that slot_to_str and    *)
(* str_to_slot are modelled by what they do to the characters.             *)
(***************************************************************************)
EXTENDS Integers, Sequences, FiniteSets, TLC

VARIABLES
    earliest_hour,      \* self.earliest_hour, clock text
    latest_hour,        \* self.latest_hour, clock text
    slot_len,           \* self.slot_len
    step,               \* self.step
    min_size,           \* self.min_size
    max_size,           \* self.max_size
    days,               \* day columns of the timetable, in column order
    schedule,           \* self.schedule: class -> day -> "HH:MM-HH:MM" or blank
    klasa,              \* roster: participant -> class label ('Klasa')
    participant_slots,  \* self.participant_slots: participant -> list of slots
    class_times,        \* self.class_times: participant -> day -> (start, end)
    candidate_slots,    \* assign_groups: slot -> set of candidates
    wait_times,         \* self.wait_times: set of (participant, slot label, wait, when)
    groups,             \* self.groups: slot label -> member list
    F,                  \* max-flow value of the last iteration
    pc,                 \* position in generate_groups
    iters,              \* iterations of the while-loop started in this run
    run,                \* 1: the run on the roster, 2: the re-run on the result's slots
    first_groups,       \* result of run 1, kept for the re-run
    rt_in,              \* round trip: the slot handed to slot_to_str
    rt_out              \* round trip: what str_to_slot gave back

vars == <<earliest_hour, latest_hour, slot_len, step, min_size, max_size, days,
          schedule, klasa, participant_slots, class_times, candidate_slots,
          wait_times, groups, F, pc, iters, run, first_groups, rt_in, rt_out>>

----------------------------------------------------------------------------
(* Bounds of the model *)

NumPeople == 3
MaxGroup == 2
MaxIters == 8

----------------------------------------------------------------------------
(* Text *)

\* A raised ValueError, as the value of the conversion that raised it: the
\* empty tuple, which no converted value equals.
ValueError == <<>>

DigitChars == <<"0", "1", "2", "3", "4", "5", "6", "7", "8", "9">>

DigitChar(d) == DigitChars[d + 1]

IsDigit(c) == \E d \in 0..9 : DigitChars[d + 1] = c

DigitVal(c) == CHOOSE d \in 0..9 : DigitChars[d + 1] = c

RECURSIVE DecStr(_)
DecStr(n) == IF n < 10 THEN <<DigitChar(n)>>
             ELSE DecStr(n \div 10) \o <<DigitChar(n % 10)>>

\* f"{n:02d}" for n >= 0
Fmt02(n) == IF n < 10 THEN <<"0">> \o DecStr(n) ELSE DecStr(n)

\* index of the first occurrence of c in s, 0 when there is none
FirstIndex(s, c) ==
    IF \E i \in 1..Len(s) : s[i] = c
    THEN CHOOSE i \in 1..Len(s) : s[i] = c /\ \A j \in 1..(i - 1) : s[j] # c
    ELSE 0

\* s.split(c): all the parts
RECURSIVE Split(_, _)
Split(s, c) ==
    LET i == FirstIndex(s, c)
    IN  IF i = 0 THEN <<s>>
        ELSE <<SubSeq(s, 1, i - 1)>> \o Split(SubSeq(s, i + 1, Len(s)), c)

\* s.split(c, 1): at most one cut
Split1(s, c) ==
    LET i == FirstIndex(s, c)
    IN  IF i = 0 THEN <<s>>
        ELSE <<SubSeq(s, 1, i - 1), SubSeq(s, i + 1, Len(s))>>

\* s.strip() for blanks
RECURSIVE Strip(_)
Strip(s) ==
    IF s = <<>> THEN s
    ELSE IF s[1] = " " THEN Strip(Tail(s))
    ELSE IF s[Len(s)] = " " THEN Strip(SubSeq(s, 1, Len(s) - 1))
    ELSE s

RECURSIVE DigitsVal(_)
DigitsVal(s) == IF s = <<>> THEN 0
                ELSE 10 * DigitsVal(SubSeq(s, 1, Len(s) - 1)) + DigitVal(s[Len(s)])

\* int(s): blanks around are dropped, a sign is allowed, the rest must be
\* digits.  <<n>> for the integer n, or ValueError.
ParseInt(s) ==
    LET t == Strip(s)
        neg == t # <<>> /\ t[1] = "-"
        d == IF neg THEN Tail(t) ELSE t
    IN  IF d = <<>> \/ \E i \in 1..Len(d) : ~IsDigit(d[i]) THEN ValueError
        ELSE IF neg THEN <<0 - DigitsVal(d)>> ELSE <<DigitsVal(d)>>

\* h, m = map(int, text.split(":")): <<h, m>>, or ValueError
ParsePair(text) ==
    LET parts == Split(text, ":")
    IN  IF Len(parts) # 2 THEN ValueError
        ELSE IF ParseInt(parts[1]) = ValueError \/ ParseInt(parts[2]) = ValueError
        THEN ValueError
        ELSE <<ParseInt(parts[1])[1], ParseInt(parts[2])[1]>>

\* <<minutes>>, or ValueError
parse_time(t) ==
    LET hm == ParsePair(Strip(t))
    IN  IF hm = ValueError THEN ValueError ELSE <<60 * hm[1] + hm[2]>>

ClockStr(t) == Fmt02(t \div 60) \o <<":">> \o Fmt02(t % 60)

slot_to_str(slot) ==
    slot[1] \o <<" ">> \o ClockStr(slot[2]) \o <<"-">> \o ClockStr(slot[3])

\* the slot (day, start, end), or ValueError
str_to_slot(s) ==
    LET parts == Split1(s, " ")
    IN  IF Len(parts) # 2 THEN ValueError
        ELSE LET times == Split(parts[2], "-")
             IN  IF Len(times) # 2 THEN ValueError
                 ELSE LET sp == ParsePair(times[1])
                          ep == ParsePair(times[2])
                      IN  IF sp = ValueError \/ ep = ValueError THEN ValueError
                          ELSE <<parts[1], sp[1] * 60 + sp[2], ep[1] * 60 + ep[2]>>

----------------------------------------------------------------------------
(* The scheduler *)

LARGE_PENALTY == 10^6

People == 1..NumPeople

\* the participants, in roster order
participants == [i \in 1..NumPeople |-> i]

Max(a, b) == IF a >= b THEN a ELSE b

Range(q) == {q[i] : i \in 1..Len(q)}

\* the while-loop of generate_slots, from t
RECURSIVE SlotsFrom(_, _, _, _, _)
SlotsFrom(day, t, end_min, len, stp) ==
    IF t + len <= end_min
    THEN <<<<day, t, t + len>>>> \o SlotsFrom(day, t + stp, end_min, len, stp)
    ELSE <<>>

generate_slots(day, start_min, end_min) ==
    SlotsFrom(day, Max(start_min, parse_time(earliest_hour)[1]), end_min, slot_len, step)

\* the timetable cell of a participant's class on a day; blank when empty
Cell(p, day) == schedule[klasa[p]][day]

\* the days of a participant that build_participant_slots does not skip
DaysOf(p) ==
    IF klasa[p] \notin DOMAIN schedule THEN {}
    ELSE {d \in Range(days) : Strip(Cell(p, d)) # <<>>}

ClassStart(p, day) == parse_time(Split(Cell(p, day), "-")[1])[1]

\* ClassEnd with the start of the range taken for its end
ClassEnd_from_start(p, day) == parse_time(Split(Cell(p, day), "-")[1])[1]

ClassEnd(p, day) == parse_time(Split(Cell(p, day), "-")[2])[1]

\* the slots one day adds to a participant's list: before the classes, then after
DaySlots(p, day) ==
    LET earliest_min == parse_time(earliest_hour)[1]
        latest_min == parse_time(latest_hour)[1]
        before == IF ClassStart(p, day) > earliest_min
                  THEN generate_slots(day, earliest_min, ClassStart(p, day))
                  ELSE <<>>
        after == IF ClassEnd(p, day) < latest_min
                 THEN generate_slots(day, ClassEnd(p, day), latest_min)
                 ELSE <<>>
    IN  before \o after

\* the loop over the days of the timetable, from column i
RECURSIVE SlotsOfDays(_, _)
SlotsOfDays(p, i) ==
    IF i > Len(days) THEN <<>>
    ELSE (IF days[i] \in DaysOf(p) THEN DaySlots(p, days[i]) ELSE <<>>)
         \o SlotsOfDays(p, i + 1)

build_participant_slots ==
    /\ pc = "init"
    /\ participant_slots' = [p \in People |-> SlotsOfDays(p, 1)]
    /\ class_times' = [p \in People |->
                         [d \in DaysOf(p) |-> <<ClassStart(p, d), ClassEnd(p, d)>>]]
    /\ pc' = "built"
    /\ UNCHANGED <<earliest_hour, latest_hour, slot_len, step, min_size, max_size,
                   days, schedule, klasa, candidate_slots, wait_times, groups, F,
                   iters, run, first_groups, rt_in, rt_out>>

\* (wait, when); the bare 0 of a day without classes is the 1-tuple <<0>>,
\* which the caller's "wait, when = ..." cannot unpack
compute_wait_minutes(person, slot) ==
    LET day == slot[1]
        slot_start == slot[2]
        slot_end == slot[3]
        times == class_times[person]
    IN  IF day \notin DOMAIN times THEN <<0>>
        ELSE LET class_start == times[day][1]
                 class_end == times[day][2]
             IN  IF slot_end <= class_start
                 THEN <<class_start - slot_end, "before">>
                 ELSE IF slot_start >= class_end
                 THEN <<slot_start - class_end, "after">>
                 ELSE <<LARGE_PENALTY, "conflict">>

\* slot -> set of the participants whose list holds it
slot_to_candidates ==
    LET slots == UNION {Range(participant_slots[p]) : p \in People}
    IN  [s \in slots |-> {p \in People : s \in Range(participant_slots[p])}]

\* the pool assign_groups starts from: the slots with at least min_size candidates
InitialPool ==
    LET kept == {s \in DOMAIN slot_to_candidates :
                    Cardinality(slot_to_candidates[s]) >= min_size}
    IN  [s \in kept |-> slot_to_candidates[s]]

assign_groups_start ==
    /\ pc = "built"
    /\ candidate_slots' = InitialPool
    /\ IF DOMAIN InitialPool = {}
       THEN pc' = "done" /\ groups' = <<>>
       ELSE pc' = "loop" /\ UNCHANGED groups
    /\ UNCHANGED <<earliest_hour, latest_hour, slot_len, step, min_size, max_size,
                   days, schedule, klasa, participant_slots, class_times,
                   wait_times, F, iters, run, first_groups, rt_in, rt_out>>

----------------------------------------------------------------------------
(* One iteration of the while-loop of assign_groups *)

\* every wait of the pool can be unpacked (else TypeError at line 141)
Unpackable(pool) ==
    \A s \in DOMAIN pool : \A p \in pool[s] : Len(compute_wait_minutes(p, s)) = 2

\* The participant -> slot edges of the network with their weights: for each
\* participant, the slots of the pool it is a candidate of and whose wait is
\* below the penalty.  A slot stands for its node slot_to_str(slot): the slots
\* of a pool differ in their times, and so do their labels.
Edges(pool) ==
    [p \in People |->
        LET out == {s \in DOMAIN pool :
                       p \in pool[s] /\ compute_wait_minutes(p, s)[1] < LARGE_PENALTY}
        IN  [s \in out |-> compute_wait_minutes(p, s)[1]]]

\* OutFlows with capacity 2 on the source edge
OutFlows_capacity2(E, p) == {x \in SUBSET DOMAIN E[p] : Cardinality(x) <= 2}

\* The flows out of participant p that the capacity 1 of its source edge
\* admits, each as the set of the edges that carry flow 1: none, or one.
OutFlows(E, p) == {{}} \cup {{s} : s \in DOMAIN E[p]}

\* a choice of out-flow for each of the first n participants
RECURSIVE Routes(_, _)
Routes(E, n) ==
    IF n = 0 THEN {<<>>}
    ELSE {Append(g, c) : g \in Routes(E, n - 1), c \in OutFlows(E, n)}

\* flow into the sink from slot s
Inflow(f, s) == Cardinality({p \in People : s \in f[p]})

\* Flows without the capacity of the slot -> sink edges
Flows_uncapped(pool) == Routes(Edges(pool), NumPeople)

\* the integral flows of the network, each as participant -> set of the slots
\* it sends 1 to: capacity 1 on each edge, max_size from a slot into the sink
Flows(pool) ==
    {f \in Routes(Edges(pool), NumPeople) :
        \A s \in DOMAIN pool : Inflow(f, s) <= max_size}

RECURSIVE ValueUpTo(_, _)
ValueUpTo(f, n) == IF n = 0 THEN 0 ELSE ValueUpTo(f, n - 1) + Cardinality(f[n])

\* the value of a flow: what leaves the source
FlowValue(f) == ValueUpTo(f, NumPeople)

RECURSIVE SumOver(_, _)
SumOver(w, S) ==
    IF S = {} THEN 0
    ELSE LET x == CHOOSE y \in S : TRUE IN w[x] + SumOver(w, S \ {x})

RECURSIVE CostUpTo(_, _, _)
CostUpTo(E, f, n) ==
    IF n = 0 THEN 0 ELSE CostUpTo(E, f, n - 1) + SumOver(E[n], f[n])

\* total weight of a flow over the edges E
FlowCost(E, f) == CostUpTo(E, f, NumPeople)

Least(S) == CHOOSE x \in S : \A y \in S : x <= y

Greatest(S) == CHOOSE x \in S : \A y \in S : x >= y

\* maximum_flow_value one short of the maximum
maximum_flow_value_short(fs) ==
    LET best == Greatest({FlowValue(f) : f \in fs})
    IN  IF best >= 2 THEN best - 1 ELSE best

\* nx.maximum_flow_value, over the flows fs of the network
maximum_flow_value(fs) == Greatest({FlowValue(f) : f \in fs})

\* nx.min_cost_flow with demand -F at the source and F at the sink: the flows
\* of value F of least cost; which of them the solver returns is its choice
min_cost_flow(E, fs, value) ==
    LET full == {f \in fs : FlowValue(f) = value}
        least == Least({FlowCost(E, f) : f \in full})
    IN  {f \in full : FlowCost(E, f) = least}

\* the slot nodes that carry flow
Used(f) == {slot_to_str(s) : s \in UNION {f[p] : p \in People}}

\* slot_members of a flow: the members of each slot node, in roster order
slot_members(f) ==
    [sn \in Used(f) |->
        SelectSeq(participants, LAMBDA p : \E s \in f[p] : slot_to_str(s) = sn)]

\* slot_counts of a flow
slot_counts(f) == [sn \in Used(f) |-> Len(slot_members(f)[sn])]

\* slots_to_remove that takes only empty slots for under-filled
slots_to_remove_empty(f) == {sn \in Used(f) : slot_counts(f)[sn] < 1}

slots_to_remove(f) == {sn \in Used(f) : slot_counts(f)[sn] < min_size}

\* what the second network loop writes to self.wait_times
WaitRows(pool) ==
    {<<ps[1], slot_to_str(ps[2]), compute_wait_minutes(ps[1], ps[2])>> :
        ps \in {qs \in People \X DOMAIN pool : qs[1] \in pool[qs[2]]}}

\* the mapping returned at line 192 (a mapping has no order; the sort by key
\* decides only the order of iteration)
final(f) ==
    LET kept == {sn \in DOMAIN slot_members(f) : Len(slot_members(f)[sn]) >= min_size}
    IN  [sn \in kept |-> slot_members(f)[sn]]

Restrict(pool, gone) == [s \in DOMAIN pool \ gone |-> pool[s]]

iteration ==
    /\ pc = "loop"
    /\ iters < MaxIters
    /\ iters' = iters + 1
    /\ IF ~Unpackable(candidate_slots)
       THEN \* TypeError out of "wait, when = 0"
            /\ pc' = "error"
            /\ UNCHANGED <<candidate_slots, wait_times, groups, F>>
       ELSE
       LET fs == Flows(candidate_slots)
           value == maximum_flow_value(fs)
       IN  /\ F' = value
           /\ IF value = 0
              THEN /\ pc' = "done"
                   /\ groups' = <<>>
                   /\ UNCHANGED <<candidate_slots, wait_times>>
              ELSE \E f \in min_cost_flow(Edges(candidate_slots), fs, value) :
                   LET removed == {str_to_slot(sn) : sn \in slots_to_remove(f)}
                   IN  /\ wait_times' = wait_times \cup WaitRows(candidate_slots)
                       /\ IF slots_to_remove(f) = {}
                          THEN /\ pc' = "done"
                               /\ groups' = final(f)
                               /\ UNCHANGED candidate_slots
                          ELSE IF ValueError \in removed
                          THEN \* str_to_slot raised
                               /\ pc' = "error"
                               /\ UNCHANGED <<candidate_slots, groups>>
                          ELSE /\ candidate_slots' = Restrict(candidate_slots, removed)
                               /\ IF DOMAIN candidate_slots \subseteq removed
                                  THEN pc' = "done" /\ groups' = <<>>
                                  ELSE pc' = "loop" /\ UNCHANGED groups
    /\ UNCHANGED <<earliest_hour, latest_hour, slot_len, step, min_size, max_size,
                   days, schedule, klasa, participant_slots, class_times,
                   run, first_groups, rt_in, rt_out>>

\* The engine run again on the slots of its own result: the pool is the
\* initial pool restricted to the slots the result uses, everything else as
\* before.
rerun ==
    /\ pc = "done"
    /\ run = 1
    /\ DOMAIN groups # {}
    /\ run' = 2
    /\ first_groups' = groups
    /\ candidate_slots' =
           Restrict(InitialPool,
                    {s \in DOMAIN InitialPool : slot_to_str(s) \notin DOMAIN groups})
    /\ iters' = 0
    /\ pc' = "loop"
    /\ UNCHANGED <<earliest_hour, latest_hour, slot_len, step, min_size, max_size,
                   days, schedule, klasa, participant_slots, class_times,
                   wait_times, groups, F, rt_in, rt_out>>

----------------------------------------------------------------------------
(* Inputs *)

\* The window is 08:00 to 10:30, slots are 60 minutes long and start every 30
\* minutes (slot_len, step, min_size and max_size are arguments of the
\* constructor; the groups here are of at most MaxGroup people).  The timetable
\* has one day column and a row for each of two classes; classes run from a
\* full hour to a later one.

\* "08:00", the default of earliest_hour
EarliestText == <<"0", "8", ":", "0", "0">>

\* the hours at which classes start and end
BellHours == 8..12

\* the timetable cells: blank, or "HH:MM-HH:MM" from a first to a later bell
Cells ==
    {<<>>} \cup
    {ClockStr(60 * a) \o <<"-">> \o ClockStr(60 * b) :
        <<a, b>> \in {ab \in BellHours \X BellHours : ab[1] < ab[2]}}

\* day labels (column headers of the timetable): plain, with a hyphen, with a
\* trailing blank, with a blank inside
PlainDay == <<"M", "o">>
HyphenDay == <<"A", "-", "B">>
TrailingBlankDay == <<"M", "o", " ">>
InnerBlankDay == <<"A", " ", "B">>

DayLabels == {PlainDay, HyphenDay, TrailingBlankDay, InnerBlankDay}

\* the class labels of the timetable
Classes == {1, 2}

\* a class label of the roster that the timetable has no row for
NoClass == 3

\* The rosters: each participant in a class of the timetable or in NoClass.
\* Participants differ only in their place in the roster, so the rosters are
\* taken with the classes in order.
Rosters ==
    {k \in [People -> Classes \cup {NoClass}] :
        \A i, j \in People : i < j => k[i] <= k[j]}

\* "10:30"
LatestText == <<"1", "0", ":", "3", "0">>

Init ==
    /\ earliest_hour = EarliestText
    /\ latest_hour = LatestText
    /\ slot_len = 60
    /\ step = 30
    /\ min_size \in 1..MaxGroup
    /\ max_size = MaxGroup
    /\ days \in {<<d>> : d \in DayLabels}
    /\ schedule \in [Classes -> [Range(days) -> Cells]]
    /\ klasa \in Rosters
    /\ participant_slots = [p \in People |-> <<>>]
    /\ class_times = [p \in People |-> <<>>]
    /\ candidate_slots = <<>>
    /\ wait_times = {}
    /\ groups = <<>>
    /\ F = 0
    /\ pc = "init"
    /\ iters = 0
    /\ run = 1
    /\ first_groups = <<>>
    /\ rt_in = <<>>
    /\ rt_out = <<>>

\* the slots of the round trip: every day label, times over the whole day
RtTimes == {0, 65, 480, 599, 600, 720, 1439}

RtSlots ==
    {<<d, t[1], t[2]>> : d \in DayLabels, t \in {u \in RtTimes \X RtTimes : u[1] < u[2]}}

InitRT ==
    /\ earliest_hour = EarliestText
    /\ latest_hour = LatestText
    /\ slot_len = 60
    /\ step = 30
    /\ min_size = 1
    /\ max_size = MaxGroup
    /\ days = <<PlainDay>>
    /\ schedule = [c \in Classes |-> [d \in {PlainDay} |-> <<>>]]
    /\ klasa = [p \in People |-> 1]
    /\ participant_slots = [p \in People |-> <<>>]
    /\ class_times = [p \in People |-> <<>>]
    /\ candidate_slots = <<>>
    /\ wait_times = {}
    /\ groups = <<>>
    /\ F = 0
    /\ pc = "rt"
    /\ iters = 0
    /\ run = 1
    /\ first_groups = <<>>
    /\ rt_in \in RtSlots
    /\ rt_out = <<>>

\* str_to_slot(slot_to_str(s))
round_trip ==
    /\ pc = "rt"
    /\ rt_out' = str_to_slot(slot_to_str(rt_in))
    /\ pc' = "rt_done"
    /\ UNCHANGED <<earliest_hour, latest_hour, slot_len, step, min_size, max_size,
                   days, schedule, klasa, participant_slots, class_times,
                   candidate_slots, wait_times, groups, F, iters, run,
                   first_groups, rt_in>>

Next ==
    \/ build_participant_slots
    \/ assign_groups_start
    \/ iteration
    \/ rerun

Spec == Init /\ [][Next]_vars

NextRT == round_trip

SpecRT == InitRT /\ [][NextRT]_vars

----------------------------------------------------------------------------
(* What the properties are stated against: the timetable as it was entered *)

HasCommitment(p, day) ==
    /\ klasa[p] \in DOMAIN schedule
    /\ day \in DOMAIN schedule[klasa[p]]
    /\ schedule[klasa[p]][day] # <<>>

\* the fixed commitment of p on a day, in minutes: the bells its cell was
\* written from
Commitment(p, day) ==
    LET ab == CHOOSE x \in BellHours \X BellHours :
                  /\ x[1] < x[2]
                  /\ schedule[klasa[p]][day]
                         = ClockStr(60 * x[1]) \o <<"-">> \o ClockStr(60 * x[2])
    IN  <<60 * ab[1], 60 * ab[2]>>

\* slot [start, end) is clear of the commitment of p on the slot's day
Clear(p, slot) ==
    HasCommitment(p, slot[1]) =>
        \/ slot[3] <= Commitment(p, slot[1])[1]
        \/ slot[2] >= Commitment(p, slot[1])[2]

\* minutes between the slot and the commitment of p on that day
Wait(p, slot) ==
    IF ~HasCommitment(p, slot[1]) THEN 0
    ELSE IF slot[3] <= Commitment(p, slot[1])[1]
    THEN Commitment(p, slot[1])[1] - slot[3]
    ELSE slot[2] - Commitment(p, slot[1])[2]

Returned == pc = "done"

\* the (person, slot) pairs of the returned mapping
ResultPairs ==
    {ps \in People \X DOMAIN candidate_slots :
        /\ slot_to_str(ps[2]) \in DOMAIN groups
        /\ ps[1] \in Range(groups[slot_to_str(ps[2])])}

RECURSIVE SumLen(_, _)
SumLen(g, S) ==
    IF S = {} THEN 0
    ELSE LET x == CHOOSE y \in S : TRUE IN Len(g[x]) + SumLen(g, S \ {x})

\* the number of entries of the member lists of a mapping
Members(g) == SumLen(g, DOMAIN g)

----------------------------------------------------------------------------
(* C1 *)

\* C1: every slot of a returned mapping has at least min_size and at most
\* max_size members, however many repair iterations came before.
CapacityInvariant ==
    Returned => \A sn \in DOMAIN groups :
                    min_size <= Len(groups[sn]) /\ Len(groups[sn]) <= max_size

\* a non-empty mapping returned after at least one repair, with a full slot
CapacityWitness ==
    /\ Returned /\ run = 1 /\ iters >= 2
    /\ \E sn \in DOMAIN groups : Len(groups[sn]) = max_size

(* C2 *)

\* C2: in a returned mapping no participant is in the member lists of two
\* slots, and none is twice in one list.
SingleAssignment ==
    Returned =>
        /\ \A sn \in DOMAIN groups : \A i, j \in 1..Len(groups[sn]) :
               groups[sn][i] = groups[sn][j] => i = j
        /\ \A sn, tn \in DOMAIN groups :
               sn # tn => Range(groups[sn]) \cap Range(groups[tn]) = {}

\* a returned mapping of two slots, with a participant who was a candidate of both
SingleAssignmentWitness ==
    /\ Returned
    /\ \E s, t \in DOMAIN candidate_slots :
          /\ s # t
          /\ slot_to_str(s) \in DOMAIN groups
          /\ slot_to_str(t) \in DOMAIN groups
          /\ \E p \in candidate_slots[s] \cap candidate_slots[t] :
                p \in Range(groups[slot_to_str(s)])

(* C3 *)

\* C3: every slot of a returned mapping is clear of the fixed commitment that
\* each of its members has on the slot's day: it ends by the commitment's
\* start or starts at or after its end.
NoConflict == Returned => \A ps \in ResultPairs : Clear(ps[1], ps[2])

\* a returned mapping that places one participant before its classes and one
\* after
NoConflictWitness ==
    /\ Returned
    /\ \E ps, qs \in ResultPairs :
          /\ HasCommitment(ps[1], ps[2][1]) /\ HasCommitment(qs[1], qs[2][1])
          /\ ps[2][3] <= Commitment(ps[1], ps[2][1])[1]
          /\ qs[2][2] >= Commitment(qs[1], qs[2][1])[2]

(* C10 *)

\* C10: a returned non-empty mapping holds as many people as the maximum-flow
\* value F of the iteration that returned it.
ReturnedIsMaximum == (Returned /\ DOMAIN groups # {}) => Members(groups) = F

\* a non-empty mapping returned after a repair
ReturnedIsMaximumWitness ==
    Returned /\ run = 1 /\ iters >= 2 /\ DOMAIN groups # {} /\ F = Members(groups)

----------------------------------------------------------------------------
(* The feasible assignments over the initial pool, by enumeration *)

\* person -> slot of the initial pool, or NoAssignment: the person is a
\* candidate of its slot, the slot is clear of its commitment, and every slot
\* in use holds between min_size and max_size people
NoAssignment == <<>>

Holds(a, s) == Cardinality({p \in People : a[p] = s})

FeasibleAssignments ==
    LET pool == InitialPool
    IN  {a \in [People -> DOMAIN pool \cup {NoAssignment}] :
            /\ \A p \in People :
                  a[p] # NoAssignment => p \in pool[a[p]] /\ Clear(p, a[p])
            /\ \A s \in DOMAIN pool :
                  Holds(a, s) = 0 \/ (min_size <= Holds(a, s) /\ Holds(a, s) <= max_size)}

Assigned(a) == {p \in People : a[p] # NoAssignment}

RECURSIVE WaitOver(_, _)
WaitOver(a, S) ==
    IF S = {} THEN 0
    ELSE LET p == CHOOSE q \in S : TRUE IN Wait(p, a[p]) + WaitOver(a, S \ {p})

\* total wait of an assignment
TotalWait(a) == WaitOver(a, Assigned(a))

\* the feasible assignments of greatest cardinality
MaximumFeasible ==
    LET fa == FeasibleAssignments
        most == Greatest({Cardinality(Assigned(a)) : a \in fa})
    IN  {a \in fa : Cardinality(Assigned(a)) = most}

RECURSIVE PairsWait(_)
PairsWait(S) ==
    IF S = {} THEN 0
    ELSE LET ps == CHOOSE qs \in S : TRUE IN Wait(ps[1], ps[2]) + PairsWait(S \ {ps})

\* total wait of the returned mapping
ResultWait == PairsWait(ResultPairs)

(* C4 *)

\* C4: the total wait of the returned assignment is minimal among the
\* maximum-cardinality feasible assignments over the initial pool: it is one
\* of them, and none of them waits less.
CostMinimality ==
    (Returned /\ run = 1) =>
        /\ \A a \in MaximumFeasible : ResultWait <= TotalWait(a)
        /\ \E a \in MaximumFeasible : Cardinality(Assigned(a)) = Members(groups)

(* C5 *)

\* C5: when the returned mapping is empty, no non-empty feasible assignment
\* exists.
EmptyMeansInfeasible ==
    (Returned /\ run = 1 /\ DOMAIN groups = {}) =>
        \A a \in FeasibleAssignments : Assigned(a) = {}

(* C6 *)

\* C6: assign_groups returns (it does not raise), every iteration that does
\* not return leaves the pool at least one slot smaller, and the iterations
\* number at most the slots of the initial pool.
RepairTerminates ==
    run = 1 =>
        /\ pc # "error"
        /\ pc = "loop" =>
              iters + Cardinality(DOMAIN candidate_slots)
                  <= Cardinality(DOMAIN InitialPool)
        /\ Returned => iters <= Cardinality(DOMAIN InitialPool)

(* C7 *)

\* C7: every generated candidate slot lies within the day window and is
\* slot_len long.
SlotsFitWindow ==
    \A p \in People : \A i \in 1..Len(participant_slots[p]) :
        LET slot == participant_slots[p][i]
        IN  /\ parse_time(earliest_hour)[1] <= slot[2]
            /\ slot[3] <= parse_time(latest_hour)[1]
            /\ slot[3] - slot[2] = slot_len

(* C8 *)

\* C8: str_to_slot(slot_to_str(s)) = s for every slot s, whatever its day
\* label.
RoundTrip == pc = "rt_done" => rt_out = rt_in

(* C9 *)

\* the flow that the first result stands for, over the pool of the re-run
FirstFlow ==
    [p \in People |->
        {s \in DOMAIN candidate_slots :
            /\ slot_to_str(s) \in DOMAIN first_groups
            /\ p \in Range(first_groups[slot_to_str(s)])}]

====
